---- MODULE Spec2Model ----
(***************************************************************************)
(* Model of the Gemini request gateway of src/index.tsx: the quota         *)
(* cooldown (isCurrentlyGeminiQuotaExhausted, quotaCooldownTimeoutId,      *)
(* setGeminiQuotaExhaustedCooldown), the error classifier                  *)
(* (parseGeminiError), the two retrying request functions                  *)
(* (generateWordDetailsWithGemini, generateImageForWordWithGemini), the    *)
(* App-level globalLoading flag and the streaming chat handler             *)
(* (TutorChatScreen.handleSendMessage) that shares that flag.              *)
(*                                                                         *)
(* Execution is single-threaded: every action below is one synchronous     *)
(* run of JavaScript between two suspension points (an await on the        *)
(* network call, an await on the backoff setTimeout, a timer callback).    *)
(* Every pending timer carries the milliseconds left until it is due, and  *)
(* time advances to the next pending timer.                                *)
(***************************************************************************)
EXTENDS Integers, Sequences, FiniteSets, TLC

\* ---------------------------------------------------------------- bounds
NumCalls == 2          \* gateway calls issued in one behaviour
MaxRetries == 2        \* largest `retries` argument tried
MaxChatErrors == 1     \* failed chat messages in one behaviour
MaxCustomWords == 2    \* words added in one behaviour
MaxDays == 3           \* calendar days one behaviour spans
MaxXp == 100           \* no XP is awarded beyond this many points
MaxQuizzes == 1        \* quizzes started in one behaviour

\* ------------------------------------------------------ program constants
GEMINI_QUOTA_COOLDOWN_MS == 15 * 60 * 1000
NullTimeoutId == 0
WordDefaultInitialDelay == 7000
ImageDefaultInitialDelay == 8000
FirstTimeoutId == 1

Calls == 1..NumCalls
Fns == {"word", "image"}

VARIABLES
    ai,                               \* TRUE iff the GoogleGenAI client exists
    isCurrentlyGeminiQuotaExhausted,
    quotaCooldownTimeoutId,           \* NullTimeoutId or the id of a timer
    timers,                           \* pending cooldown setTimeout callbacks
    nextTimeoutId,                    \* id window.setTimeout returns next
    globalLoading,                    \* App.globalLoading
    calls,                            \* one record per gateway call
    isLoading,                        \* TutorChatScreen.isLoading
    chatToasts,                       \* toasts of the chat handler
    openFor,                          \* ms elapsed since the cooldown opened
    classified                        \* an error and what parseGeminiError
                                      \* returned for it (<<>>: not called)

\* State of the App component and of the screens it hosts.
VARIABLES
    allWords,                         \* App.allWords, a sequence of words
    wordStats,                        \* App.wordStats: word id -> WordStat
    userSettings,                     \* App.userSettings
    localStorage,                     \* keys userSettings, allWords, wordStats
    appToasts,                        \* toasts of the handler that ran last
    nextWordId,                       \* next `custom-${Date.now()}-...` id
    saveResult,                       \* last return of handleSaveCustomWord
    quiz,                             \* QuizScreen reducer state
    statsAtStart,                     \* wordStats when the quiz was started
    quizzesStarted,                   \* quizzes started so far
    today,                            \* getTodayDateString(), a day number
    appScreen,                        \* App.appScreen
    editableWord,                     \* EditWordModal.editableWord
    newWord,                          \* ManageWordsScreen.newWord
    pendingFill,                      \* AI fill awaiting the gateway
    event                             \* the handler that ran last

appVars == <<allWords, wordStats, userSettings, localStorage, appToasts,
             nextWordId, saveResult, quiz, statsAtStart, quizzesStarted, today, appScreen,
             editableWord, newWord, pendingFill, event>>

vars == <<ai, isCurrentlyGeminiQuotaExhausted, quotaCooldownTimeoutId, timers,
          nextTimeoutId, globalLoading, calls, isLoading, chatToasts, openFor,
          classified, appVars>>

\* ------------------------------------------------------------ error values
\* A thrown value: shape "nested" is {error: {message, code, status}},
\* shape "flat" is {message, status}, shape "other" is anything else (its
\* String() is `message`).  Optional fields are sequences of length 0 or 1.
\* A message is the sequence of its words.
Lower(w) ==
    CASE w = "Quota" -> "quota"
      [] w = "QUOTA" -> "quota"
      [] w = "Exceeded" -> "exceeded"
      [] w = "Exhausted" -> "exhausted"
      [] w = "Failed" -> "failed"
      [] w = "Too" -> "too"
      [] w = "Many" -> "many"
      [] w = "Requests" -> "requests"
      [] OTHER -> w

Upper(w) ==
    CASE w = "resource_exhausted" -> "RESOURCE_EXHAUSTED"
      [] w = "Resource_Exhausted" -> "RESOURCE_EXHAUSTED"
      [] w = "unavailable" -> "UNAVAILABLE"
      [] OTHER -> w

toLowerCase(msg) == [k \in 1..Len(msg) |-> Lower(msg[k])]

includes(msg, w) == \E k \in 1..Len(msg) : msg[k] = w

QuotaErr ==
    [shape |-> "nested", message |-> <<"Quota", "exceeded">>,
     code |-> <<429>>, status |-> <<"RESOURCE_EXHAUSTED">>, numStatus |-> <<>>]
RateLimitErr ==
    [shape |-> "nested", message |-> <<"Too", "Many", "Requests">>,
     code |-> <<429>>, status |-> <<>>, numStatus |-> <<>>]
NetworkErr ==
    [shape |-> "flat", message |-> <<"Failed", "to", "fetch">>,
     code |-> <<>>, status |-> <<>>, numStatus |-> <<>>]


\* An unparsable payload (JSON.parse throws a SyntaxError) and a thrown
\* value that is no object.
SyntaxErr ==
    [shape |-> "flat", message |-> <<"Unexpected", "token">>,
     code |-> <<>>, status |-> <<>>, numStatus |-> <<>>]
ThrownString ==
    [shape |-> "other", message |-> <<"boom">>,
     code |-> <<>>, status |-> <<>>, numStatus |-> <<>>]

\* The first half of parseGeminiError: message, status code and status
\* string as the three branches on the error's shape extract them.
ExtractError(error) ==
    [detailedErrorMessage |-> toLowerCase(error.message),
     statusCode |->
        IF error.shape = "nested" THEN error.code
        ELSE IF error.shape = "flat"
                 /\ error.numStatus # <<>> /\ error.numStatus[1] # 0
             THEN error.numStatus
             ELSE <<>>,
     geminiErrorStatus |->
        IF error.shape = "nested" /\ error.status # <<>>
        THEN <<Upper(error.status[1])>> ELSE <<>>]

\* `!statusCode`
NoStatusCode(statusCode) == statusCode = <<>> \/ statusCode = <<0>>

\* const isQuotaExhaustedError = (...)
isQuotaExhaustedError_NoMessageOnlyRule(x) ==
    \/ /\ x.statusCode = <<429>>
       /\ (includes(x.detailedErrorMessage, "quota")
            \/ x.geminiErrorStatus = <<"RESOURCE_EXHAUSTED">>)
    \/ x.geminiErrorStatus = <<"RESOURCE_EXHAUSTED">>

isQuotaExhaustedError_StatusNeeds429(x) ==
    \/ /\ x.statusCode = <<429>>
       /\ (includes(x.detailedErrorMessage, "quota")
            \/ x.geminiErrorStatus = <<"RESOURCE_EXHAUSTED">>)
    \/ /\ NoStatusCode(x.statusCode)
       /\ includes(x.detailedErrorMessage, "quota")
       /\ (includes(x.detailedErrorMessage, "exceeded")
            \/ includes(x.detailedErrorMessage, "exhausted"))

isQuotaExhaustedError(x) ==
    \/ /\ x.statusCode = <<429>>
       /\ (includes(x.detailedErrorMessage, "quota")
            \/ x.geminiErrorStatus = <<"RESOURCE_EXHAUSTED">>)
    \/ /\ NoStatusCode(x.statusCode)
       /\ includes(x.detailedErrorMessage, "quota")
       /\ (includes(x.detailedErrorMessage, "exceeded")
            \/ includes(x.detailedErrorMessage, "exhausted"))
    \/ x.geminiErrorStatus = <<"RESOURCE_EXHAUSTED">>

\* const isRateLimitErrorForRetry = (statusCode === 429 && !isQuotaExhaustedError)
isRateLimitErrorForRetry_Any429(x) == x.statusCode = <<429>>

isRateLimitErrorForRetry(x) ==
    x.statusCode = <<429>> /\ ~isQuotaExhaustedError(x)

parseGeminiError(error) ==
    LET x == ExtractError(error)
    IN [detailedErrorMessage |-> x.detailedErrorMessage,
        statusCode |-> x.statusCode,
        geminiErrorStatus |-> x.geminiErrorStatus,
        isQuotaExhaustedError |-> isQuotaExhaustedError(x),
        isRateLimitErrorForRetry |-> isRateLimitErrorForRetry(x)]

GatewayErrors ==
    {QuotaErr, RateLimitErr, NetworkErr, SyntaxErr, ThrownString}

\* Inputs of parseGeminiError for the classification claims.
Messages ==
    {<<"Quota", "exceeded">>, <<"QUOTA", "Exhausted">>, <<"quota">>,
     <<"limit", "exceeded">>, <<"Too", "Many", "Requests">>,
     <<"Failed", "to", "fetch">>}
Codes == {<<>>, <<0>>, <<429>>, <<500>>}
Statuses ==
    {<<>>, <<"RESOURCE_EXHAUSTED">>, <<"resource_exhausted">>,
     <<"UNAVAILABLE">>}

ParseInputs ==
    {[shape |-> "nested", message |-> m, code |-> k, status |-> st,
      numStatus |-> <<>>] : m \in Messages, k \in Codes, st \in Statuses}
    \cup {[shape |-> "flat", message |-> m, code |-> <<>>, status |-> st,
           numStatus |-> <<>>] : m \in Messages, st \in Statuses}
    \cup {[shape |-> "flat", message |-> m, code |-> <<>>, status |-> <<>>,
           numStatus |-> k] : m \in Messages, k \in Codes}
    \cup {[shape |-> "other", message |-> m, code |-> <<>>, status |-> st,
           numStatus |-> <<>>] : m \in Messages, st \in Statuses}

\* ------------------------------------------------------------------ toasts
\* level as in ToastMessage['type']; what = which message; delay = the
\* number of milliseconds the text names (0: it names none).
Toast(level, what, delay) == [level |-> level, what |-> what, delay |-> delay]

\* -------------------------------------------------------------- App values
\* A string the user types or a word carries: `base` is its text without
\* surrounding whitespace and in lower case, `caps` says it has an upper case
\* letter, `pad` that it has surrounding whitespace.  "" is NoText.
Text(base, caps, pad) == [base |-> base, caps |-> caps, pad |-> pad]

NoText == Text("", FALSE, FALSE)

\* String.prototype.trim and String.prototype.toLowerCase on such a string.
trim(t) == [t EXCEPT !.pad = FALSE]

textToLowerCase(t) == [t EXCEPT !.caps = FALSE]

\* A Word; `unit` is <<>> when undefined.  Fields no handler below reads
\* (pronunciation, gradeLevel, ...) are left out of the list entries.
Word(id, term, meaning, isCustom, unit) ==
    [id |-> id, term |-> term, meaning |-> meaning, isCustom |-> isCustom,
     unit |-> unit]

\* The word list the app starts with: built-in words, none of them custom.
SampleWords ==
    << Word(1, Text("apple", FALSE, FALSE), Text("m1", FALSE, FALSE), FALSE, <<1>>),
       Word(2, Text("pear", FALSE, FALSE), Text("m2", FALSE, FALSE), FALSE, <<1>>),
       Word(3, Text("plum", FALSE, FALSE), Text("m3", FALSE, FALSE), FALSE, <<2>>),
       Word(4, Text("fig", FALSE, FALSE), Text("m4", FALSE, FALSE), FALSE, <<2>>) >>

FirstCustomId == 5

Ids(words) == {words[k].id : k \in 1..Len(words)}

\* lastReviewed is <<>> for null, else <<day>>.
getDefaultWordStat(wordId) ==
    [id |-> wordId, isMastered |-> FALSE, lastReviewed |-> <<>>,
     quizIncorrectCount |-> 0]

\* The updater of updateWordStat applied to `stats`; `updates` is a record
\* holding some of the fields of a WordStat.
updateWordStat(stats, wordId, updates) ==
    LET currentStat == IF wordId \in DOMAIN stats
                       THEN stats[wordId] ELSE getDefaultWordStat(wordId)
        merged == [f \in DOMAIN currentStat |->
                      IF f \in DOMAIN updates THEN updates[f]
                      ELSE currentStat[f]]
    IN [id \in DOMAIN stats \cup {wordId} |->
           IF id = wordId THEN merged ELSE stats[id]]

\* Dates are <<>> when the field is absent, else <<day>>; lastQuizScore is
\* the fraction score / total * 100 kept as <<score * 100, total>>.
InitialSettings ==
    [xp |-> 0, level |-> 1, lastLearnedDate |-> <<>>, lastQuizDate |-> <<>>,
     lastQuizScore |-> <<>>]

InitialStats == [id \in Ids(SampleWords) |-> getDefaultWordStat(id)]

\* initialQuizState of QuizScreen.
initialQuizState ==
    [quizState |-> "setup", selectedUnit |-> "all", quizType |-> "multiple",
     quizWords |-> <<>>, currentQuestionIndex |-> 0, score |-> 0,
     incorrectlyAnsweredWords |-> <<>>, showResult |-> FALSE,
     typedAnswer |-> "", selectedAnswer |-> <<>>]

\* A word form: the six text fields the AI fill writes.
FormFields ==
    {"term", "pronunciation", "meaning", "partOfSpeech", "exampleSentence",
     "exampleSentenceMeaning"}

EmptyForm == [f \in FormFields |-> NoText]

NoEvent == [name |-> "none", id |-> <<>>]

\* The App after the load effect has read `stats` and `settings` from
\* localStorage, before any handler has run.
AppLoaded(stats, settings) ==
    /\ allWords = SampleWords
    /\ wordStats = stats
    /\ userSettings = settings
    /\ localStorage = [userSettings |-> settings,
                       allWords |-> SampleWords,
                       wordStats |-> stats]
    /\ appToasts = <<>>
    /\ nextWordId = FirstCustomId
    /\ saveResult = "none"
    /\ quiz = initialQuizState
    /\ statsAtStart = stats
    /\ quizzesStarted = 0
    /\ today = 1
    /\ appScreen = "dashboard"
    /\ editableWord = EmptyForm
    /\ newWord = EmptyForm
    /\ pendingFill = <<>>
    /\ event = NoEvent

AppAtRest == AppLoaded(InitialStats, InitialSettings)

\* -------------------------------------------------------------------- Init
IdleCall ==
    [pc |-> "idle", fn |-> "word", retries |-> 0, initialDelay |-> 0,
     i |-> 0, currentDelay |-> 0, sleepLeft |-> 0, invoked |-> 0,
     attempts |-> <<>>, delays |-> <<>>, toasts |-> <<>>, result |-> "none",
     resumesBefore |-> 0]

Init ==
    /\ ai \in BOOLEAN
    /\ isCurrentlyGeminiQuotaExhausted = FALSE
    /\ quotaCooldownTimeoutId = NullTimeoutId
    /\ timers = {}
    /\ nextTimeoutId = FirstTimeoutId
    /\ globalLoading = FALSE
    /\ calls = [c \in Calls |-> IdleCall]
    /\ isLoading = FALSE
    /\ chatToasts = <<>>
    /\ openFor = 0
    /\ classified = [error |-> NetworkErr, result |-> <<>>]
    /\ AppAtRest

\* ------------------------------------------------- quota cooldown trigger
\* The effect of one call of setGeminiQuotaExhaustedCooldown made with the
\* addToast/featureName of gateway call `owner`: the new values of the module
\* level variables, the timer table, and the toasts it emits.
setGeminiQuotaExhaustedCooldown_NoGuard(owner) ==
    [exhausted |-> TRUE,
     toasts |-> <<Toast("error", "cooldown", GEMINI_QUOTA_COOLDOWN_MS)>>,
     timers |-> {t \in timers :
                   quotaCooldownTimeoutId = NullTimeoutId
                   \/ t.id # quotaCooldownTimeoutId}
                \cup {[id |-> nextTimeoutId,
                       left |-> GEMINI_QUOTA_COOLDOWN_MS,
                       owner |-> owner]},
     timeoutId |-> nextTimeoutId,
     nextId |-> nextTimeoutId + 1]

setGeminiQuotaExhaustedCooldown_ToastOutsideGuard(owner) ==
    IF ~isCurrentlyGeminiQuotaExhausted
    THEN [exhausted |-> TRUE,
          toasts |-> <<Toast("error", "cooldown", GEMINI_QUOTA_COOLDOWN_MS)>>,
          timers |-> {t \in timers :
                        quotaCooldownTimeoutId = NullTimeoutId
                        \/ t.id # quotaCooldownTimeoutId}
                     \cup {[id |-> nextTimeoutId,
                            left |-> GEMINI_QUOTA_COOLDOWN_MS,
                            owner |-> owner]},
          timeoutId |-> nextTimeoutId,
          nextId |-> nextTimeoutId + 1]
    ELSE [exhausted |-> isCurrentlyGeminiQuotaExhausted,
          toasts |-> <<Toast("error", "cooldown", GEMINI_QUOTA_COOLDOWN_MS)>>,
          timers |-> timers,
          timeoutId |-> quotaCooldownTimeoutId,
          nextId |-> nextTimeoutId]

setGeminiQuotaExhaustedCooldown_DropsHandle(owner) ==
    IF ~isCurrentlyGeminiQuotaExhausted
    THEN [exhausted |-> TRUE,
          toasts |-> <<Toast("error", "cooldown", GEMINI_QUOTA_COOLDOWN_MS)>>,
          timers |-> timers
                     \cup {[id |-> nextTimeoutId,
                            left |-> GEMINI_QUOTA_COOLDOWN_MS,
                            owner |-> owner]},
          timeoutId |-> quotaCooldownTimeoutId,
          nextId |-> nextTimeoutId + 1]
    ELSE [exhausted |-> isCurrentlyGeminiQuotaExhausted,
          toasts |-> <<>>,
          timers |-> timers,
          timeoutId |-> quotaCooldownTimeoutId,
          nextId |-> nextTimeoutId]

setGeminiQuotaExhaustedCooldown(owner) ==
    IF ~isCurrentlyGeminiQuotaExhausted
    THEN [exhausted |-> TRUE,
          toasts |-> <<Toast("error", "cooldown", GEMINI_QUOTA_COOLDOWN_MS)>>,
          timers |-> {t \in timers :
                        quotaCooldownTimeoutId = NullTimeoutId
                        \/ t.id # quotaCooldownTimeoutId}
                     \cup {[id |-> nextTimeoutId,
                            left |-> GEMINI_QUOTA_COOLDOWN_MS,
                            owner |-> owner]},
          timeoutId |-> nextTimeoutId,
          nextId |-> nextTimeoutId + 1]
    ELSE [exhausted |-> isCurrentlyGeminiQuotaExhausted,
          toasts |-> <<>>,
          timers |-> timers,
          timeoutId |-> quotaCooldownTimeoutId,
          nextId |-> nextTimeoutId]

\* ------------------------------------------------------- the retry loop
\* Top of `for (let i = 0; i <= retries; i++)`: either the next attempt is
\* issued (the call suspends on the network await) or the loop is left and
\* the code after the try/finally runs.
LoopIteration_OffByOne(call) ==
    IF call.i < call.retries
    THEN [call EXCEPT !.pc = "inflight", !.invoked = @ + 1]
    ELSE [call EXCEPT !.pc = "done", !.result = "null",
                      !.toasts = Append(@, Toast("error", "fallback", 0))]

LoopIteration(call) ==
    IF call.i <= call.retries
    THEN [call EXCEPT !.pc = "inflight", !.invoked = @ + 1]
    ELSE [call EXCEPT !.pc = "done", !.result = "null",
                      !.toasts = Append(@, Toast("error", "fallback", 0))]

\* `addToast(..., "warning"); await new Promise(r => setTimeout(r, currentDelay))`
BackoffSleep_Silent(call, toast) ==
    [call EXCEPT !.pc = "sleeping",
                 !.sleepLeft = call.currentDelay,
                 !.delays = Append(@, call.currentDelay)]

BackoffSleep(call, toast) ==
    [call EXCEPT !.pc = "sleeping",
                 !.sleepLeft = call.currentDelay,
                 !.delays = Append(@, call.currentDelay),
                 !.toasts = Append(@, toast)]

\* A `return` inside the try: the call resolves with `result`.
Return(call, result, toasts) ==
    [call EXCEPT !.pc = "done", !.result = result, !.toasts = @ \o toasts]

\* `currentDelay *= 2` after the backoff sleep.
NextDelay_Constant(currentDelay) == currentDelay

NextDelay(currentDelay) == currentDelay * 2

\* The catch branch for an error classified as quota exhaustion: the cooldown
\* trigger has run (its toasts are `cooldown.toasts`) and the call returns null.
OnQuotaExhausted_Retries(call, cooldown) ==
    IF call.i < call.retries
    THEN BackoffSleep(call, Toast("warning", "retry", call.currentDelay))
    ELSE Return(call, "null", cooldown.toasts)

OnQuotaExhausted(call, cooldown) == Return(call, "null", cooldown.toasts)

\* The catch branch of the last attempt for a non-quota error: error toast,
\* `return null`.
OnRetriesExhausted_Rethrows(call) ==
    [call EXCEPT !.pc = "done", !.result = "rejected"]

OnRetriesExhausted_KeepsLooping(call) ==
    BackoffSleep(call, Toast("warning", "retry", call.currentDelay))

OnRetriesExhausted(call) ==
    Return(call, "null", <<Toast("error", "failed", 0)>>)

\* `if (isQuotaExhaustedError)` in the catch block.
TriggersCooldown_Any429(parsed) == parsed.statusCode = <<429>>

TriggersCooldown(parsed) == parsed.isQuotaExhaustedError

\* What the catch block's log and toasts make of the parsed error (the two
\* non-quota wordings, rate limit and generic, are not told apart).
AttemptKind(parsed) ==
    IF parsed.isQuotaExhaustedError THEN "quota" ELSE "transient"

\* What the last attempt returns when its payload is still incomplete:
\* `return { term }` for the word lookup, `return null` for the image.
IncompleteFinalResult_AlwaysNull(fn) == "null"

IncompleteFinalResult(fn) == IF fn = "word" THEN "partial" ELSE "null"

\* The value of globalLoading after the call's step: the `finally` block
\* runs setGlobalLoading(false) when the call leaves the try.
LoadingAfter_OnlyOnSuccess(call) ==
    IF call.pc = "done" /\ call.result = "data" THEN FALSE ELSE globalLoading

LoadingAfter_AlsoBeforeSleep(call) ==
    IF call.pc \in {"done", "sleeping"} THEN FALSE ELSE globalLoading

LoadingAfter(call) == IF call.pc = "done" THEN FALSE ELSE globalLoading

\* Number of "cooldown is over" toasts emitted so far.
ResumeToasts(c) ==
    Cardinality({k \in 1..Len(calls[c].toasts) :
                    calls[c].toasts[k].what = "resume"})

RECURSIVE SumResume(_)
SumResume(S) ==
    IF S = {} THEN 0
    ELSE LET c == CHOOSE x \in S : TRUE
         IN ResumeToasts(c) + SumResume(S \ {c})

\* The two guards at the top of both request functions.
EntryCheck_NoQuotaGate == IF ~ai THEN "nokey" ELSE "admit"

EntryCheck ==
    IF ~ai THEN "nokey"
    ELSE IF isCurrentlyGeminiQuotaExhausted THEN "skip"
    ELSE "admit"

\* globalLoading after a call is turned away by one of the two guards: both
\* return before setGlobalLoading(true) and before the try/finally.
LoadingOnReject_FinallyRuns == FALSE

LoadingOnReject == globalLoading

Returned(c) == calls[c].pc = "done"
Admitted(c) == calls[c].invoked > 0
InFlight(c) == calls[c].pc \in {"inflight", "sleeping"}

QuotaUnchanged ==
    UNCHANGED <<isCurrentlyGeminiQuotaExhausted, quotaCooldownTimeoutId,
                timers, nextTimeoutId, openFor>>
ChatUnchanged == UNCHANGED <<isLoading, chatToasts>>

\* Entry of generateWordDetailsWithGemini / generateImageForWordWithGemini up
\* to the first await.
StartCall(c, fn, retries, initialDelay) ==
    /\ calls[c].pc = "idle"
    /\ \A d \in Calls : d < c => calls[d].pc # "idle"
    /\ LET base == [calls[c] EXCEPT !.fn = fn, !.retries = retries,
                                    !.initialDelay = initialDelay,
                                    !.resumesBefore = SumResume(Calls)]
       IN IF EntryCheck # "admit"
          THEN /\ calls' = [calls EXCEPT ![c] =
                     Return(base, "null",
                            <<Toast("warning", EntryCheck, 0)>>)]
               /\ globalLoading' = LoadingOnReject
          ELSE LET entered == LoopIteration(
                                 [base EXCEPT !.currentDelay = initialDelay])
               IN /\ calls' = [calls EXCEPT ![c] = entered]
                  /\ globalLoading' = (entered.pc # "done")
    /\ QuotaUnchanged
    /\ ChatUnchanged
    /\ UNCHANGED <<appVars, ai, classified>>

\* The network call resolves with a complete payload.
RespondOk_ClearsCooldown(c) ==
    /\ calls[c].pc = "inflight"
    /\ LET call == [calls[c] EXCEPT !.attempts = Append(@, "ok")]
           after == Return(call, "data",
                           IF call.fn = "image"
                           THEN <<Toast("success", "done", 0)>> ELSE <<>>)
       IN /\ calls' = [calls EXCEPT ![c] = after]
          /\ globalLoading' = FALSE
    /\ isCurrentlyGeminiQuotaExhausted' = FALSE
    /\ UNCHANGED <<quotaCooldownTimeoutId, timers, nextTimeoutId, openFor>>
    /\ UNCHANGED <<isLoading, chatToasts, ai, classified, appVars>>

RespondOk(c) ==
    /\ calls[c].pc = "inflight"
    /\ LET call == [calls[c] EXCEPT !.attempts = Append(@, "ok")]
           after == Return(call, "data",
                           IF call.fn = "image"
                           THEN <<Toast("success", "done", 0)>> ELSE <<>>)
       IN /\ calls' = [calls EXCEPT ![c] = after]
          /\ globalLoading' = LoadingAfter(after)
    /\ QuotaUnchanged
    /\ ChatUnchanged
    /\ UNCHANGED <<appVars, ai, classified>>

\* The network call resolves with a payload that lacks required fields.
RespondIncomplete(c) ==
    /\ calls[c].pc = "inflight"
    /\ LET call == [calls[c] EXCEPT !.attempts = Append(@, "incomplete")]
           after ==
              IF call.i < call.retries
              THEN BackoffSleep(call, Toast("warning", "incomplete", 0))
              ELSE Return(call, IncompleteFinalResult(call.fn),
                          <<Toast("error", "incomplete", 0)>>)
       IN /\ calls' = [calls EXCEPT ![c] = after]
          /\ globalLoading' = LoadingAfter(after)
    /\ QuotaUnchanged
    /\ ChatUnchanged
    /\ UNCHANGED <<appVars, ai, classified>>

\* The network call (or the parsing of its payload) throws `error`.
RespondError(c, error) ==
    /\ calls[c].pc = "inflight"
    /\ LET parsed == parseGeminiError(error)
           cooldown == setGeminiQuotaExhaustedCooldown(c)
       IN IF TriggersCooldown(parsed)
          THEN LET call == [calls[c] EXCEPT
                               !.attempts = Append(@, AttemptKind(parsed))]
                   after == OnQuotaExhausted(call, cooldown)
               IN /\ calls' = [calls EXCEPT ![c] = after]
                  /\ isCurrentlyGeminiQuotaExhausted' = cooldown.exhausted
                  /\ quotaCooldownTimeoutId' = cooldown.timeoutId
                  /\ timers' = cooldown.timers
                  /\ nextTimeoutId' = cooldown.nextId
                  /\ openFor' = IF ~isCurrentlyGeminiQuotaExhausted
                                THEN 0 ELSE openFor
                  /\ globalLoading' = LoadingAfter(after)
          ELSE LET call == [calls[c] EXCEPT
                               !.attempts = Append(@, AttemptKind(parsed))]
                   after ==
                      IF call.i < call.retries
                      THEN BackoffSleep(call,
                               Toast("warning", "retry", call.currentDelay))
                      ELSE OnRetriesExhausted(call)
               IN /\ calls' = [calls EXCEPT ![c] = after]
                  /\ globalLoading' = LoadingAfter(after)
                  /\ QuotaUnchanged
    /\ ChatUnchanged
    /\ UNCHANGED <<appVars, ai, classified>>

\* The backoff timer resolves: `currentDelay *= 2`, `i++`, next iteration.
WakeFromSleep(c) ==
    /\ calls[c].pc = "sleeping"
    /\ calls[c].sleepLeft = 0
    /\ LET after == LoopIteration([calls[c] EXCEPT !.currentDelay = NextDelay(@),
                                                   !.i = @ + 1])
       IN /\ calls' = [calls EXCEPT ![c] = after]
          /\ globalLoading' = LoadingAfter(after)
    /\ QuotaUnchanged
    /\ ChatUnchanged
    /\ UNCHANGED <<appVars, ai, classified>>

\* The callback given to window.setTimeout by the cooldown trigger.
CooldownExpire_KeepsHandle(t) ==
    /\ t \in timers
    /\ t.left = 0
    /\ isCurrentlyGeminiQuotaExhausted' = FALSE
    /\ timers' = timers \ {t}
    /\ calls' = [calls EXCEPT ![t.owner].toasts =
                    Append(@, Toast("info", "resume", 0))]
    /\ UNCHANGED <<isLoading, chatToasts>>
    /\ UNCHANGED <<appVars, ai, classified, quotaCooldownTimeoutId, nextTimeoutId, globalLoading,
                   openFor>>

CooldownExpire_NoToast(t) ==
    /\ t \in timers
    /\ t.left = 0
    /\ isCurrentlyGeminiQuotaExhausted' = FALSE
    /\ quotaCooldownTimeoutId' = NullTimeoutId
    /\ timers' = timers \ {t}
    /\ UNCHANGED <<isLoading, chatToasts>>
    /\ UNCHANGED <<appVars, ai, classified, nextTimeoutId, globalLoading, openFor, calls>>

CooldownExpire(t) ==
    /\ t \in timers
    /\ t.left = 0
    /\ isCurrentlyGeminiQuotaExhausted' = FALSE
    /\ quotaCooldownTimeoutId' = NullTimeoutId
    /\ timers' = timers \ {t}
    /\ calls' = [calls EXCEPT ![t.owner].toasts =
                    Append(@, Toast("info", "resume", 0))]
    /\ ChatUnchanged
    /\ UNCHANGED <<appVars, ai, classified, nextTimeoutId, globalLoading, openFor>>

\* ------------------------------------------------------------------ clock
Sleepers == {c \in Calls : calls[c].pc = "sleeping"}

PendingLefts ==
    {t.left : t \in timers} \cup {calls[c].sleepLeft : c \in Sleepers}

MinOf(S) == CHOOSE x \in S : \A y \in S : x <= y

\* Time passes until the earliest pending timer is due; a due timer fires
\* before the clock moves on.
AdvanceTime ==
    /\ PendingLefts # {}
    /\ MinOf(PendingLefts) > 0
    /\ LET d == MinOf(PendingLefts)
       IN /\ timers' = {[t EXCEPT !.left = @ - d] : t \in timers}
          /\ calls' = [c \in Calls |->
                          IF c \in Sleepers
                          THEN [calls[c] EXCEPT !.sleepLeft = @ - d]
                          ELSE calls[c]]
          /\ openFor' = IF isCurrentlyGeminiQuotaExhausted
                        THEN openFor + d ELSE openFor
    /\ ChatUnchanged
    /\ UNCHANGED <<appVars, ai, classified, isCurrentlyGeminiQuotaExhausted,
                   quotaCooldownTimeoutId, nextTimeoutId, globalLoading>>

\* ------------------------------------------------------------- chat tutor
\* TutorChatScreen.handleSendMessage up to `await chat.sendMessageStream`;
\* `chat` is non-null iff `ai` is.
ChatSend ==
    /\ ai
    /\ ~isLoading
    /\ Len(chatToasts) < MaxChatErrors
    /\ isLoading' = TRUE
    /\ globalLoading' = TRUE
    /\ QuotaUnchanged
    /\ UNCHANGED <<appVars, ai, classified, calls, chatToasts>>

\* The stream is consumed to its end.
ChatStreamDone ==
    /\ isLoading
    /\ isLoading' = FALSE
    /\ globalLoading' = FALSE
    /\ QuotaUnchanged
    /\ UNCHANGED <<appVars, ai, classified, calls, chatToasts>>

\* The toast of the chat handler's catch block; its text carries the
\* displayErrorMsg parseGeminiError computed.
ChatErrorToast(error) ==
    Toast("error",
          IF parseGeminiError(error).isQuotaExhaustedError
          THEN "chatquota" ELSE "chat",
          0)

\* sendMessageStream or the stream throws `error`.
ChatStreamError_TriggersCooldown(error) ==
    /\ isLoading
    /\ chatToasts' = Append(chatToasts, ChatErrorToast(error))
    /\ isLoading' = FALSE
    /\ globalLoading' = FALSE
    /\ isCurrentlyGeminiQuotaExhausted' =
          (isCurrentlyGeminiQuotaExhausted
             \/ parseGeminiError(error).isQuotaExhaustedError)
    /\ UNCHANGED <<quotaCooldownTimeoutId, timers, nextTimeoutId, openFor>>
    /\ UNCHANGED <<appVars, ai, classified, calls>>

ChatStreamError(error) ==
    /\ isLoading
    /\ chatToasts' = Append(chatToasts, ChatErrorToast(error))
    /\ isLoading' = FALSE
    /\ globalLoading' = FALSE
    /\ QuotaUnchanged
    /\ UNCHANGED <<appVars, ai, classified, calls>>

\* ------------------------------------------------------------------- spec
InitialDelay(fn) ==
    IF fn = "word" THEN WordDefaultInitialDelay ELSE ImageDefaultInitialDelay

Next ==
    \/ \E c \in Calls, fn \in Fns, retries \in 0..MaxRetries :
            StartCall(c, fn, retries, InitialDelay(fn))
    \/ \E c \in Calls : RespondOk(c)
    \/ \E c \in Calls : RespondIncomplete(c)
    \/ \E c \in Calls, error \in GatewayErrors : RespondError(c, error)
    \/ \E c \in Calls : WakeFromSleep(c)
    \/ \E t \in timers : CooldownExpire(t)
    \/ AdvanceTime
    \/ ChatSend
    \/ ChatStreamDone
    \/ \E error \in GatewayErrors : ChatStreamError(error)

Spec == Init /\ [][Next]_vars

\* ----------------------------------------- parseGeminiError on its own
\* The classifier applied once to an error drawn from ParseInputs; the
\* gateway is at rest.
GatewayAtRest ==
    /\ ai \in BOOLEAN
    /\ isCurrentlyGeminiQuotaExhausted = FALSE
    /\ quotaCooldownTimeoutId = NullTimeoutId
    /\ timers = {}
    /\ nextTimeoutId = FirstTimeoutId
    /\ globalLoading = FALSE
    /\ calls = [c \in Calls |-> IdleCall]
    /\ isLoading = FALSE
    /\ chatToasts = <<>>
    /\ openFor = 0

ParseInit ==
    /\ GatewayAtRest
    /\ AppAtRest
    /\ classified \in {[error |-> e, result |-> <<>>] : e \in ParseInputs}

Classify ==
    /\ classified.result = <<>>
    /\ classified' = [classified EXCEPT
                         !.result = <<parseGeminiError(classified.error)>>]
    /\ UNCHANGED <<ai, isCurrentlyGeminiQuotaExhausted,
                   quotaCooldownTimeoutId, timers, nextTimeoutId,
                   globalLoading, calls, isLoading, chatToasts, openFor,
                   appVars>>

ParseNext == Classify

ParseSpec == ParseInit /\ [][ParseNext]_vars

TypeOK ==
    /\ ai \in BOOLEAN
    /\ isCurrentlyGeminiQuotaExhausted \in BOOLEAN
    /\ globalLoading \in BOOLEAN
    /\ isLoading \in BOOLEAN
    /\ quotaCooldownTimeoutId \in Nat
    /\ openFor \in Nat
    /\ Len(classified.result) <= 1
    /\ \A c \in Calls : calls[c].pc \in {"idle", "inflight", "sleeping", "done"}

\* Fairness: the event loop runs every timer callback that is due, and time
\* passes.  Network responses and user actions are not forced.
LiveSpec ==
    /\ Spec
    /\ WF_vars(AdvanceTime)
    /\ WF_vars(\E t \in timers : CooldownExpire(t))
    /\ \A c \in Calls : WF_vars(WakeFromSleep(c))

\* Fairness for termination: besides the timers, every network call that
\* is pending completes, with whatever outcome.
Responds(c) ==
    \/ RespondOk(c)
    \/ RespondIncomplete(c)
    \/ \E error \in GatewayErrors : RespondError(c, error)

TermSpec ==
    /\ LiveSpec
    /\ \A c \in Calls : WF_vars(Responds(c))

\* ------------------------------------------------------- word management
gatewayVars == <<ai, isCurrentlyGeminiQuotaExhausted, quotaCooldownTimeoutId,
                 timers, nextTimeoutId, globalLoading, calls, isLoading,
                 chatToasts, openFor, classified>>

\* localStorage.setItem(key, JSON.stringify(data))
saveData(storage, key, data) == [storage EXCEPT ![key] = data]

\* Array.prototype.find on the word list: <<>> or <<the first match>>.
FindWord(words, wordId) ==
    LET found == {k \in 1..Len(words) : words[k].id = wordId}
    IN IF found = {} THEN <<>> ELSE <<words[MinOf(found)]>>

\* handleDeleteCustomWord with both of its state updaters applied.
handleDeleteCustomWord(wordId, silent) ==
    LET wordToDelete == FindWord(allWords, wordId)
        refused == wordToDelete = <<>> \/ ~wordToDelete[1].isCustom
        newWords == SelectSeq(allWords, LAMBDA w : w.id # wordId)
        newStats == [id \in DOMAIN wordStats \ {wordId} |-> wordStats[id]]
    IN /\ allWords' = IF refused THEN allWords ELSE newWords
       /\ wordStats' = newStats
       /\ localStorage' =
             saveData(IF refused THEN localStorage
                      ELSE saveData(localStorage, "allWords", newWords),
                      "wordStats", newStats)
       /\ appToasts' = IF silent THEN <<>>
                       ELSE IF refused THEN <<Toast("error", "builtin", 0)>>
                       ELSE <<Toast("success", "deleted", 0)>>
       /\ event' = [name |-> "handleDeleteCustomWord", id |-> <<wordId>>]
       /\ UNCHANGED <<userSettings, nextWordId, saveResult, quiz,
                      statsAtStart, quizzesStarted, today, appScreen, editableWord, newWord,
                      pendingFill>>
       /\ UNCHANGED gatewayVars

\* handleSaveCustomWord with its state updater applied.  `word.id` is <<>>
\* for a new word.
handleSaveCustomWord(word, unit) ==
    LET isEditing == word.id # <<>>
        normalizedTerm == textToLowerCase(trim(word.term))
        duplicateExists ==
            \E k \in 1..Len(allWords) :
                /\ textToLowerCase(allWords[k].term) = normalizedTerm
                /\ <<allWords[k].id>> # word.id
        wordToSave ==
            IF isEditing
            THEN Word(word.id[1], word.term, word.meaning, word.isCustom, unit)
            ELSE Word(nextWordId, trim(word.term), trim(word.meaning), TRUE,
                      unit)
        newWords ==
            IF isEditing
            THEN [k \in 1..Len(allWords) |->
                     IF allWords[k].id = wordToSave.id THEN wordToSave
                     ELSE allWords[k]]
            ELSE Append(allWords, wordToSave)
        newStats ==
            IF isEditing THEN wordStats
            ELSE updateWordStat(wordStats, wordToSave.id,
                                getDefaultWordStat(wordToSave.id))
        failure ==
            IF trim(word.term) = NoText \/ trim(word.meaning) = NoText
            THEN "required"
            ELSE IF duplicateExists THEN "duplicate"
            ELSE "none"
    IN /\ ~isEditing => nextWordId < FirstCustomId + MaxCustomWords
       /\ IF failure # "none"
          THEN /\ saveResult' = failure
               /\ UNCHANGED <<allWords, wordStats, localStorage, nextWordId>>
          ELSE /\ saveResult' = "success"
               /\ allWords' = newWords
               /\ wordStats' = newStats
               /\ localStorage' =
                     saveData(IF isEditing THEN localStorage
                              ELSE saveData(localStorage, "wordStats",
                                            newStats),
                              "allWords", newWords)
               /\ nextWordId' = IF isEditing THEN nextWordId
                                ELSE nextWordId + 1
       /\ appToasts' = <<>>
       /\ event' = [name |-> "handleSaveCustomWord", id |-> word.id]
       /\ UNCHANGED <<userSettings, quiz, statsAtStart, quizzesStarted, today, appScreen,
                      editableWord, newWord, pendingFill>>
       /\ UNCHANGED gatewayVars

\* What the user can type as a term and as a meaning.
InputTerms ==
    {NoText, Text("", FALSE, TRUE)}
        \cup {Text(b, c, p) : b \in {"apple", "kiwi"}, c \in BOOLEAN,
                               p \in BOOLEAN}

InputMeanings == {NoText, Text("m", FALSE, FALSE), Text("m", FALSE, TRUE)}

InputUnits == {<<>>, <<1>>}

\* The words the edit modal can be opened on and submit: a custom word of
\* the list with its term and meaning retyped.
EditedWords ==
    {[id |-> <<allWords[k].id>>, term |-> t, meaning |-> m,
      isCustom |-> allWords[k].isCustom] :
        k \in {j \in 1..Len(allWords) : allWords[j].isCustom},
        t \in InputTerms, m \in InputMeanings}

NewWords ==
    {[id |-> <<>>, term |-> t, meaning |-> m, isCustom |-> TRUE] :
        t \in InputTerms, m \in InputMeanings}

\* Ids handleDeleteCustomWord is tried on: a built-in word, and every id a
\* custom word has, had or may get.
DeleteIds == {1} \cup (FirstCustomId .. FirstCustomId + MaxCustomWords)

WordsInit ==
    /\ GatewayAtRest
    /\ classified = [error |-> NetworkErr, result |-> <<>>]
    /\ \E n \in {0, 2} :
          AppLoaded(updateWordStat(InitialStats, 1, [quizIncorrectCount |-> n]),
                    InitialSettings)

WordsNext ==
    \/ \E word \in NewWords \cup EditedWords, unit \in InputUnits :
          handleSaveCustomWord(word, unit)
    \/ \E wordId \in DeleteIds, silent \in BOOLEAN :
          handleDeleteCustomWord(wordId, silent)

WordsSpec == WordsInit /\ [][WordsNext]_vars

\* ------------------------------------------------------ settings and XP
\* The updater addXp passes to setUserSettings, applied to `prev`: the new
\* settings (which it also saves) and the toasts it emits.
addXpUpdater(prev, amount) ==
    LET newXp == prev.xp + amount
        xpForNextLevel == prev.level * 100
        levelUp == newXp >= xpForNextLevel
    IN [settings |-> [prev EXCEPT !.xp = newXp,
                                  !.level = IF levelUp THEN @ + 1 ELSE @],
        toasts |-> IF levelUp THEN <<Toast("success", "levelup", 0)>>
                   ELSE <<>>]

SettingsSavedToast == Toast("success", "saved", 0)

XpFrame ==
    /\ UNCHANGED <<allWords, nextWordId, saveResult, quiz, statsAtStart, quizzesStarted,
                   appScreen, editableWord, newWord, pendingFill>>
    /\ UNCHANGED gatewayVars

\* handleSaveSettings called from the settings modal with the current
\* settings (the fields it edits are not among those kept here).
handleSaveSettings ==
    /\ localStorage' = saveData(localStorage, "userSettings", userSettings)
    /\ appToasts' = <<SettingsSavedToast>>
    /\ event' = [name |-> "handleSaveSettings", id |-> <<>>]
    /\ UNCHANGED <<userSettings, wordStats, today>>
    /\ XpFrame

\* handleWordLearned and the render that follows it.  The handler queues the
\* addXp updater (on a new day) and then handleSaveSettings replaces the
\* state with a copy of the userSettings it closed over, so the replacement
\* is what the state becomes.  The updater runs, and saves, either at once
\* (`eager`: the update queue was empty) or during the render, after
\* handleSaveSettings has saved.
handleWordLearned(wordId, eager) ==
    LET newDay == userSettings.lastLearnedDate # <<today>>
        awarded == addXpUpdater(userSettings, 5)
        updatedSettings == [userSettings EXCEPT !.lastLearnedDate = <<today>>]
        newStats == updateWordStat(wordStats, wordId,
                                   [lastReviewed |-> <<today>>])
    IN /\ userSettings.xp < MaxXp
       /\ localStorage.userSettings.xp < MaxXp
       /\ userSettings' = updatedSettings
       /\ wordStats' = newStats
       /\ localStorage' =
             saveData(saveData(localStorage, "wordStats", newStats),
                      "userSettings",
                      IF newDay /\ ~eager THEN awarded.settings
                      ELSE updatedSettings)
       /\ appToasts' =
             IF ~newDay THEN <<SettingsSavedToast>>
             ELSE IF eager THEN awarded.toasts \o <<SettingsSavedToast>>
             ELSE <<SettingsSavedToast>> \o awarded.toasts
       /\ event' = [name |-> "handleWordLearned", id |-> <<wordId>>]
       /\ UNCHANGED today
       /\ XpFrame

\* Midnight (UTC) passes.
DayPasses ==
    /\ today < MaxDays
    /\ today' = today + 1
    /\ appToasts' = <<>>
    /\ event' = [name |-> "DayPasses", id |-> <<>>]
    /\ UNCHANGED <<userSettings, wordStats, localStorage>>
    /\ XpFrame

\* The page is reloaded: the load effect reads the three keys back.
LoadFromStorage ==
    /\ userSettings' = localStorage.userSettings
    /\ allWords' = localStorage.allWords
    /\ wordStats' = localStorage.wordStats
    /\ appToasts' = <<>>
    /\ event' = [name |-> "LoadFromStorage", id |-> <<>>]
    /\ UNCHANGED <<localStorage, today, nextWordId, saveResult, quiz,
                   statsAtStart, quizzesStarted, appScreen, editableWord, newWord,
                   pendingFill>>
    /\ UNCHANGED gatewayVars

XpInit ==
    /\ GatewayAtRest
    /\ classified = [error |-> NetworkErr, result |-> <<>>]
    /\ \E xp \in {0, 95} :
          AppLoaded(InitialStats, [InitialSettings EXCEPT !.xp = xp])

XpNext ==
    \/ \E wordId \in {1, 2}, eager \in BOOLEAN :
          handleWordLearned(wordId, eager)
    \/ handleSaveSettings
    \/ DayPasses
    \/ LoadFromStorage

XpSpec == XpInit /\ [][XpNext]_vars

\* ------------------------------------------------------------------- quiz
\* An answer is told apart only by whether it is one of the meanings of the
\* current word: "right" is, "wrong" is not, "" is the empty input.
QuizFrame ==
    /\ UNCHANGED <<allWords, nextWordId, saveResult, today, appScreen,
                   editableWord, newWord, pendingFill>>
    /\ UNCHANGED gatewayVars

\* String(w.unit); a word without unit never matches a selected unit.
UnitString(unit) ==
    IF unit = <<1>> THEN "1" ELSE IF unit = <<2>> THEN "2" ELSE "undefined"

\* Every order shuffleArray can return for the set of ids S.
Shuffles(S) ==
    {f \in [1..Cardinality(S) -> S] :
        \A j, k \in 1..Cardinality(S) : j # k => f[j] # f[k]}

\* Array.prototype.slice(0, 10)
Slice10(seq) == SubSeq(seq, 1, IF Len(seq) < 10 THEN Len(seq) ELSE 10)

\* optionSourceWords of startQuiz, as ids.
OptionSource(selectedUnit) ==
    {allWords[k].id : k \in {j \in 1..Len(allWords) :
        selectedUnit = "all" \/ UnitString(allWords[j].unit) = selectedUnit}}

\* `wordStats[id]?.quizIncorrectCount || 0`
QuizIncorrectCount(stats, id) ==
    IF id \in DOMAIN stats THEN stats[id].quizIncorrectCount ELSE 0

\* The forEach of handleQuizComplete: one updateWordStat per word, each
\* computing its count from `closure`, the wordStats the handler closed over.
RECURSIVE MarkIncorrect(_, _, _)
MarkIncorrect(stats, closure, words) ==
    IF words = <<>> THEN stats
    ELSE MarkIncorrect(
            updateWordStat(stats, Head(words),
                [quizIncorrectCount |->
                    QuizIncorrectCount(closure, Head(words)) + 1]),
            closure, Tail(words))

\* Whether the current question has been answered already.
AlreadyAnswered_Never == FALSE

AlreadyAnswered == quiz.showResult

\* dispatch CHANGE_SETUP from the setup form or, for typedAnswer, from the
\* answer input (read-only once the result is shown).
CHANGE_SETUP(key, value) ==
    /\ IF key = "typedAnswer"
       THEN /\ quiz.quizState = "playing"
            /\ quiz.quizType = "typing"
            /\ ~quiz.showResult
            /\ value \in {"", "right", "wrong"}
       ELSE /\ quiz.quizState = "setup"
            /\ key = "selectedUnit" => value \in {"all", "1", "2"}
            /\ key = "quizType" => value \in {"multiple", "typing"}
    /\ quiz[key] # value
    /\ quiz' = [quiz EXCEPT ![key] = value]
    /\ appToasts' = <<>>
    /\ event' = [name |-> "CHANGE_SETUP", id |-> <<>>]
    /\ UNCHANGED <<wordStats, userSettings, localStorage, statsAtStart,
                   quizzesStarted>>
    /\ QuizFrame

\* startQuiz with the order `shuffled` drawn by shuffleArray, and the
\* START_QUIZ it dispatches.
startQuiz(shuffled) ==
    /\ quiz.quizState = "setup"
    /\ quizzesStarted < MaxQuizzes
    /\ LET wordsForQuiz == Slice10(shuffled)
           optionSourceWords == OptionSource(quiz.selectedUnit)
       IN IF Cardinality(optionSourceWords) < 4
             /\ quiz.quizType = "multiple"
          THEN /\ appToasts' = <<Toast("warning", "fewwords", 0)>>
               /\ UNCHANGED <<quiz, statsAtStart, quizzesStarted>>
          ELSE IF Len(wordsForQuiz) = 0
          THEN /\ appToasts' = <<Toast("warning", "nowords", 0)>>
               /\ UNCHANGED <<quiz, statsAtStart, quizzesStarted>>
          ELSE /\ quiz' = [initialQuizState EXCEPT
                              !.quizState = "playing",
                              !.quizType = quiz.quizType,
                              !.selectedUnit = quiz.selectedUnit,
                              !.quizWords = wordsForQuiz]
               /\ statsAtStart' = wordStats
               /\ quizzesStarted' = quizzesStarted + 1
               /\ appToasts' = <<>>
    /\ event' = [name |-> "startQuiz", id |-> <<>>]
    /\ UNCHANGED <<wordStats, userSettings, localStorage>>
    /\ QuizFrame

\* The reducer cases SUBMIT_MULTIPLE_CHOICE and SUBMIT_TYPING.
Submitted(state, isCorrect, wordId) ==
    [state EXCEPT
        !.showResult = TRUE,
        !.score = IF isCorrect THEN @ + 1 ELSE @,
        !.incorrectlyAnsweredWords =
            IF isCorrect THEN @ ELSE Append(@, wordId)]

\* The updateWordStat call both submit handlers make after a wrong answer.
CountWrongAnswer(wordId) ==
    LET newStats ==
            updateWordStat(wordStats, wordId,
                [quizIncorrectCount |->
                    QuizIncorrectCount(wordStats, wordId) + 1])
    IN /\ wordStats' = newStats
       /\ localStorage' = saveData(localStorage, "wordStats", newStats)

\* handleQuizComplete, called by the FINISH_QUIZ case of the reducer, with
\* the state updates it queues applied in order: the settings replacement,
\* the addXp updater, one stat update per incorrect word.
handleQuizComplete(score, total, incorrectWords) ==
    LET updatedSettings ==
            [userSettings EXCEPT !.lastQuizDate = <<today>>,
                                 !.lastQuizScore = <<score * 100, total>>]
        awarded == addXpUpdater(updatedSettings, score * 2)
        newStats == MarkIncorrect(wordStats, wordStats, incorrectWords)
    IN /\ userSettings' = awarded.settings
       /\ wordStats' = newStats
       /\ localStorage' =
             saveData(IF incorrectWords = <<>> THEN localStorage
                      ELSE saveData(localStorage, "wordStats", newStats),
                      "userSettings", awarded.settings)
       /\ appToasts' = <<SettingsSavedToast>> \o awarded.toasts

\* handleNextQuestion and the NEXT_QUESTION or FINISH_QUIZ it dispatches.
NextQuestion ==
    IF quiz.currentQuestionIndex < Len(quiz.quizWords) - 1
    THEN /\ quiz' = [quiz EXCEPT !.currentQuestionIndex = @ + 1,
                                 !.selectedAnswer = <<>>,
                                 !.showResult = FALSE,
                                 !.typedAnswer = ""]
         /\ appToasts' = <<>>
         /\ UNCHANGED <<wordStats, userSettings, localStorage>>
    ELSE /\ handleQuizComplete(quiz.score, Len(quiz.quizWords),
                               quiz.incorrectlyAnsweredWords)
         /\ quiz' = [quiz EXCEPT !.quizState = "finished"]

\* The "next" button of the multiple-choice quiz, rendered once the result
\* is shown.
handleNextQuestion ==
    /\ quiz.quizState = "playing"
    /\ quiz.quizType = "multiple"
    /\ quiz.showResult
    /\ NextQuestion
    /\ event' = [name |-> "handleNextQuestion", id |-> <<>>]
    /\ UNCHANGED <<statsAtStart, quizzesStarted>>
    /\ QuizFrame

handleMultipleChoiceSubmit(option) ==
    /\ quiz.quizState = "playing"
    /\ quiz.quizType = "multiple"
    /\ LET currentWord == quiz.quizWords[quiz.currentQuestionIndex + 1]
           isCorrect == option = "right"
       IN IF AlreadyAnswered
          THEN UNCHANGED <<quiz, wordStats, localStorage>>
          ELSE /\ quiz' = [Submitted(quiz, isCorrect, currentWord)
                              EXCEPT !.selectedAnswer = <<option>>]
               /\ IF isCorrect THEN UNCHANGED <<wordStats, localStorage>>
                  ELSE CountWrongAnswer(currentWord)
    /\ appToasts' = <<>>
    /\ event' = [name |-> "handleMultipleChoiceSubmit", id |-> <<>>]
    /\ UNCHANGED <<userSettings, statsAtStart, quizzesStarted>>
    /\ QuizFrame

handleTypingSubmit ==
    /\ quiz.quizState = "playing"
    /\ quiz.quizType = "typing"
    /\ LET currentWord == quiz.quizWords[quiz.currentQuestionIndex + 1]
           isCorrect == quiz.typedAnswer = "right"
       IN IF AlreadyAnswered
          THEN NextQuestion
          ELSE /\ quiz' = Submitted(quiz, isCorrect, currentWord)
               /\ IF isCorrect
                  THEN /\ UNCHANGED <<wordStats, localStorage>>
                       /\ appToasts' = <<>>
                  ELSE /\ CountWrongAnswer(currentWord)
                       /\ appToasts' = <<Toast("error", "wrong", 0)>>
               /\ UNCHANGED userSettings
    /\ event' = [name |-> "handleTypingSubmit", id |-> <<>>]
    /\ UNCHANGED <<statsAtStart, quizzesStarted>>
    /\ QuizFrame

\* dispatch RESTART_QUIZ from the result screen.
RESTART_QUIZ ==
    /\ quiz.quizState = "finished"
    /\ quiz' = [initialQuizState EXCEPT !.selectedUnit = quiz.selectedUnit,
                                        !.quizType = quiz.quizType]
    /\ appToasts' = <<>>
    /\ event' = [name |-> "RESTART_QUIZ", id |-> <<>>]
    /\ UNCHANGED <<wordStats, userSettings, localStorage, statsAtStart,
                   quizzesStarted>>
    /\ QuizFrame

QuizInit ==
    /\ GatewayAtRest
    /\ classified = [error |-> NetworkErr, result |-> <<>>]
    /\ \E n \in {0, 1} :
          AppLoaded(updateWordStat(InitialStats, 1, [quizIncorrectCount |-> n]),
                    InitialSettings)

QuizNext ==
    \/ \E key \in {"selectedUnit", "quizType", "typedAnswer"},
          value \in {"all", "1", "2", "multiple", "typing", "", "right",
                     "wrong"} :
          CHANGE_SETUP(key, value)
    \/ \E shuffled \in Shuffles(OptionSource(quiz.selectedUnit)) :
          startQuiz(shuffled)
    \/ \E option \in {"right", "wrong"} : handleMultipleChoiceSubmit(option)
    \/ handleTypingSubmit
    \/ handleNextQuestion
    \/ RESTART_QUIZ

QuizSpec == QuizInit /\ [][QuizNext]_vars

\* ---------------------------------------------------------------- AI fill
\* The word forms of EditWordModal (on the all-words screen) and of
\* ManageWordsScreen.  The gateway call the fill handlers await is stood for
\* by its result: null, the degraded payload { term }, or a parsed payload
\* that passed the essential-field check.
Typed == Text("typed", FALSE, FALSE)

FromAI == Text("ai", FALSE, FALSE)

\* What the user can type into a form field.
FieldInputs(name) ==
    IF name = "term"
    THEN {NoText, Text("", FALSE, TRUE), Typed, Text("typed", FALSE, TRUE)}
    ELSE {NoText, Typed}

\* Forms the edit modal opens with: a copy of a listed word.
ListedForms ==
    {[f \in FormFields |->
         IF f \in {"pronunciation", "exampleSentenceMeaning"} THEN opt
         ELSE Typed] : opt \in {NoText, Typed}}

\* A payload field is <<>> when absent, else <<text>>.
NoDetails == [f \in FormFields |-> <<>>]

DegradedPayload(term) == [NoDetails EXCEPT !.term = <<term>>]

DataPayloads ==
    {[f \in FormFields |->
         IF f = "term" THEN t
         ELSE IF f = "pronunciation" THEN p
         ELSE IF f = "exampleSentenceMeaning" THEN e
         ELSE <<FromAI>>] :
        t \in {<<>>, <<FromAI>>}, p \in {<<>>, <<FromAI>>},
        e \in {<<>>, <<NoText>>, <<FromAI>>}}

\* `value || fallback` on a payload field.
OrElse(value, fallback) ==
    IF value = <<>> \/ value = <<NoText>> THEN fallback ELSE value[1]

\* The updater handleAIFillDetails passes to setEditableWord.
FillEditableWord(prev, details) ==
    [f \in FormFields |-> OrElse(details[f], prev[f])]

\* The updater handleAIFill passes to setNewWord.
FillNewWord(prev, details) ==
    [f \in FormFields |->
        IF f = "term" THEN OrElse(details[f], prev[f])
        ELSE OrElse(details[f], NoText)]

FillFrame ==
    /\ UNCHANGED <<allWords, wordStats, userSettings, localStorage,
                   nextWordId, saveResult, quiz, statsAtStart, quizzesStarted, today>>
    /\ UNCHANGED gatewayVars

\* handleNavigate to one of the two screens; the screen mounts with a fresh
\* form (the modal with a copy of the word it is opened on) and a fill still
\* awaited by the screen that unmounts no longer reaches any form.
OpenScreen(screen, form) ==
    /\ appScreen' = screen
    /\ editableWord' = IF screen = "allWords" THEN form ELSE EmptyForm
    /\ newWord' = EmptyForm
    /\ pendingFill' = <<>>
    /\ appToasts' = <<>>
    /\ event' = [name |-> "handleNavigate", id |-> <<>>]
    /\ FillFrame

\* EditWordModal.handleChange
handleChange(name, value) ==
    /\ appScreen = "allWords"
    /\ editableWord' = [editableWord EXCEPT ![name] = value]
    /\ appToasts' = <<>>
    /\ event' = [name |-> "handleChange", id |-> <<>>]
    /\ UNCHANGED <<appScreen, newWord, pendingFill>>
    /\ FillFrame

\* ManageWordsScreen.handleInputChange
handleInputChange(name, value) ==
    /\ appScreen = "manageWords"
    /\ newWord' = [newWord EXCEPT ![name] = value]
    /\ appToasts' = <<>>
    /\ event' = [name |-> "handleInputChange", id |-> <<>>]
    /\ UNCHANGED <<appScreen, editableWord, pendingFill>>
    /\ FillFrame

\* The AI buttons are disabled without an API key and during the cooldown.
canUseAI == ai /\ ~isCurrentlyGeminiQuotaExhausted

\* EditWordModal.handleAIFillDetails up to the await; its button is disabled
\* while a fill is in progress.
handleAIFillDetails ==
    /\ appScreen = "allWords"
    /\ canUseAI
    /\ pendingFill = <<>>
    /\ IF trim(editableWord.term) = NoText
       THEN /\ appToasts' = <<Toast("warning", "noterm", 0)>>
            /\ UNCHANGED pendingFill
       ELSE /\ appToasts' = <<>>
            /\ pendingFill' = <<trim(editableWord.term)>>
    /\ event' = [name |-> "handleAIFillDetails", id |-> <<>>]
    /\ UNCHANGED <<appScreen, editableWord, newWord>>
    /\ FillFrame

\* ManageWordsScreen.handleAIFill up to the await; its button is disabled
\* while a fill is in progress and while the term is blank.
handleAIFill ==
    /\ appScreen = "manageWords"
    /\ canUseAI
    /\ pendingFill = <<>>
    /\ trim(newWord.term) # NoText
    /\ IF trim(newWord.term) = NoText
       THEN /\ appToasts' = <<Toast("warning", "noterm", 0)>>
            /\ UNCHANGED pendingFill
       ELSE /\ appToasts' = <<>>
            /\ pendingFill' = <<trim(newWord.term)>>
    /\ event' = [name |-> "handleAIFill", id |-> <<>>]
    /\ UNCHANGED <<appScreen, editableWord, newWord>>
    /\ FillFrame

\* The awaited generateWordDetailsWithGemini resolves with `details` (<<>>
\* for null) and the handler that awaited it runs to its end.
AIFillResolved(kind, details) ==
    /\ pendingFill # <<>>
    /\ IF appScreen = "allWords"
       THEN /\ editableWord' = IF details = <<>> THEN editableWord
                               ELSE FillEditableWord(editableWord, details[1])
            /\ UNCHANGED newWord
       ELSE /\ newWord' = IF details = <<>> THEN newWord
                          ELSE FillNewWord(newWord, details[1])
            /\ UNCHANGED editableWord
    /\ pendingFill' = <<>>
    /\ appToasts' = <<>>
    /\ event' = [name |-> "AIFillResolved", id |-> <<kind>>]
    /\ UNCHANGED appScreen
    /\ FillFrame

FillInit ==
    /\ GatewayAtRest
    /\ classified = [error |-> NetworkErr, result |-> <<>>]
    /\ AppAtRest

FillNext ==
    \/ \E screen \in {"allWords", "manageWords"}, form \in ListedForms :
          OpenScreen(screen, form)
    \/ \E name \in FormFields : \E value \in FieldInputs(name) :
          handleChange(name, value)
    \/ \E name \in FormFields : \E value \in FieldInputs(name) :
          handleInputChange(name, value)
    \/ handleAIFillDetails
    \/ handleAIFill
    \/ AIFillResolved("null", <<>>)
    \/ AIFillResolved("partial", <<DegradedPayload(pendingFill[1])>>)
    \/ \E details \in DataPayloads : AIFillResolved("data", <<details>>)

FillSpec == FillInit /\ [][FillNext]_vars

\* ---------------------------------------------------------------- helpers
Last(seq) == seq[Len(seq)]

RECURSIVE Pow2(_)
Pow2(n) == IF n = 0 THEN 1 ELSE 2 * Pow2(n - 1)

Levels(c) == [k \in 1..Len(calls[c].toasts) |-> calls[c].toasts[k].level]

Starts(c) == calls[c].pc = "idle" /\ calls'[c].pc # "idle"
Invokes(c) == calls'[c].invoked > calls[c].invoked
Returns(c) == calls[c].pc # "done" /\ calls'[c].pc = "done"
Catches(c, kind) ==
    /\ Len(calls'[c].attempts) = Len(calls[c].attempts) + 1
    /\ Last(calls'[c].attempts) = kind
HasToast(c, what) ==
    \E k \in 1..Len(calls[c].toasts) : calls[c].toasts[k].what = what

\* ------------------------------------------------------------------ claims

\* C1: a gateway call that starts while the cooldown is Open returns null in
\* the same step, without invoking its network operation, and a returned call
\* never invokes the operation later.
C1_FastFailWhileOpen ==
    [][\A c \in Calls :
          /\ (Starts(c) /\ isCurrentlyGeminiQuotaExhausted)
                => /\ calls'[c].pc = "done"
                   /\ calls'[c].result = "null"
                   /\ calls'[c].invoked = 0
                   /\ UNCHANGED <<isCurrentlyGeminiQuotaExhausted, timers>>
          /\ Returned(c) => (Returned(c)' /\ ~Invokes(c))]_vars

\* C1 witness: the cooldown is Open and a call that started meanwhile has been
\* rejected with no invocation.
C1_Witness ==
    \E c \in Calls :
        /\ isCurrentlyGeminiQuotaExhausted
        /\ Returned(c) /\ calls[c].invoked = 0 /\ calls[c].result = "null"
        /\ HasToast(c, "skip")

\* C2: no network operation is invoked in a state where the cooldown is Open,
\* the retry attempts of calls admitted earlier included.
C2_NoInvocationWhileOpen ==
    [][\A c \in Calls : Invokes(c) => ~isCurrentlyGeminiQuotaExhausted]_vars

\* C3: when an attempt fails with a quota-exhausted error the cooldown is Open
\* right after the step, the call has returned null in that step, it made no
\* further attempt, and it never makes one later.
C3_QuotaErrorEndsCall ==
    [][\A c \in Calls :
          /\ Catches(c, "quota")
                => /\ isCurrentlyGeminiQuotaExhausted'
                   /\ timers' # {}
                   /\ calls'[c].pc = "done"
                   /\ calls'[c].result = "null"
                   /\ calls'[c].invoked = Len(calls'[c].attempts)
          /\ (Returned(c) /\ calls[c].attempts # <<>>
                /\ Last(calls[c].attempts) = "quota")
                => (Returned(c)' /\ ~Invokes(c))]_vars

\* C3 witness: a call with a retry budget left got a quota error on its first
\* attempt and returned after that single invocation.
C3_Witness ==
    \E c \in Calls :
        /\ calls[c].retries > 0
        /\ calls[c].attempts = <<"quota">>
        /\ Returned(c) /\ calls[c].invoked = 1

\* C4: a returned call all of whose attempts threw a non-quota error invoked
\* the operation retries + 1 times, emitted retries warnings followed by one
\* error, and returned null.
C4_AlwaysFailingCall ==
    \A c \in Calls :
        (/\ Returned(c)
         /\ calls[c].attempts # <<>>
         /\ \A k \in 1..Len(calls[c].attempts) :
                calls[c].attempts[k] = "transient")
        => /\ calls[c].invoked = calls[c].retries + 1
           /\ Len(calls[c].attempts) = calls[c].retries + 1
           /\ Levels(c) = [k \in 1..(calls[c].retries + 1) |->
                              IF k <= calls[c].retries
                              THEN "warning" ELSE "error"]
           /\ calls[c].result = "null"

\* C4 witness: retries = 2, three invocations that all threw, call returned.
C4_Witness ==
    \E c \in Calls :
        /\ calls[c].retries = 2
        /\ Returned(c)
        /\ calls[c].attempts = <<"transient", "transient", "transient">>
        /\ calls[c].invoked = 3

\* C5: the k-th backoff sleep of a call lasts initialDelay * 2^(k-1), whatever
\* failures caused the retries, and the delay held for the next sleep is
\* initialDelay * 2^i.
C5_BackoffDoubles ==
    \A c \in Calls :
        /\ \A k \in 1..Len(calls[c].delays) :
              calls[c].delays[k] = calls[c].initialDelay * Pow2(k - 1)
        /\ calls[c].pc = "inflight"
              => calls[c].currentDelay = calls[c].initialDelay * Pow2(calls[c].i)

\* C5 witness: a call slept twice, once after an incomplete payload and once
\* after a thrown error.
C5_Witness ==
    \E c \in Calls :
        /\ Len(calls[c].delays) = 2
        /\ calls[c].attempts[1] = "incomplete"
        /\ calls[c].attempts[2] = "transient"
        /\ calls[c].pc = "inflight"

\* C6: when no gateway call is in flight and no chat message is streaming the
\* Loading Flag is false.
C6_LoadingFalseWhenIdle ==
    ((\A c \in Calls : ~InFlight(c)) /\ ~isLoading) => ~globalLoading

\* C6 witness: every call has returned, one of them after exhausting its
\* retries on thrown errors and one after a quota error.
C6_Witness ==
    /\ \A c \in Calls : Returned(c) /\ Admitted(c)
    /\ ~isLoading
    /\ \E c \in Calls : HasToast(c, "failed") /\ calls[c].retries > 0
    /\ \E c \in Calls : Last(calls[c].attempts) = "quota"

\* C7 as stated: whenever some admitted call has not returned the Loading
\* Flag is true.
C7_LoadingWhileAnyInFlight ==
    (\E c \in Calls : InFlight(c)) => globalLoading

\* C7 amended: admitting a call sets the flag, and the flag goes from true to
\* false only in a step in which a gateway call returns or the chat stream
\* ends (so it stays true through retries and backoff sleeps).
C7_LoadingHeldUntilSomeReturn ==
    [][/\ \A c \in Calls : (Starts(c) /\ Invokes(c)) => globalLoading'
       /\ (globalLoading /\ ~globalLoading')
             => \/ \E c \in Calls : Returns(c) /\ Admitted(c)'
                \/ isLoading /\ ~isLoading']_vars

\* C7 witness: a call is in its second backoff sleep and the flag is true.
C7_Witness ==
    \E c \in Calls :
        /\ calls[c].pc = "sleeping"
        /\ Len(calls[c].delays) = 2
        /\ globalLoading

\* C8: while the cooldown is Open exactly one expiry timer is pending, it is
\* the one the handle names, and it is due one cooldown duration after the
\* Open period began, however many calls ran the trigger meanwhile.
C8_EntryIdempotent ==
    isCurrentlyGeminiQuotaExhausted
        => /\ Cardinality(timers) = 1
           /\ \A t \in timers :
                 /\ t.id = quotaCooldownTimeoutId
                 /\ t.left + openFor = GEMINI_QUOTA_COOLDOWN_MS

\* C8 witness: some time into an Open period a second call has caught a quota
\* error (it emitted no cooldown toast of its own).
C8_Witness ==
    \E c \in Calls :
        /\ isCurrentlyGeminiQuotaExhausted
        /\ openFor > 0
        /\ calls[c].attempts # <<>>
        /\ Last(calls[c].attempts) = "quota"
        /\ ~HasToast(c, "cooldown")

\* C9: an Open cooldown eventually closes; it closes exactly one cooldown
\* duration after it opened, and closing clears the timer handle.
C9_CooldownExpires ==
    /\ isCurrentlyGeminiQuotaExhausted ~> ~isCurrentlyGeminiQuotaExhausted
    /\ [][(isCurrentlyGeminiQuotaExhausted /\ ~isCurrentlyGeminiQuotaExhausted')
             => /\ openFor = GEMINI_QUOTA_COOLDOWN_MS
                /\ quotaCooldownTimeoutId' = NullTimeoutId]_vars

\* C9 witness: the cooldown has closed again after a full cooldown duration.
C9_Witness ==
    /\ ~isCurrentlyGeminiQuotaExhausted
    /\ quotaCooldownTimeoutId = NullTimeoutId
    /\ openFor = GEMINI_QUOTA_COOLDOWN_MS
    /\ \E c \in Calls : HasToast(c, "cooldown")

\* C10: a call that starts while the cooldown is closed (so the first one
\* after the expiry) is admitted and invokes its operation; a resumption toast
\* is emitted in exactly the steps that close the cooldown, one per step.
C10_ResumeAfterCooldown ==
    [][/\ \A c \in Calls :
             (Starts(c) /\ ai /\ ~isCurrentlyGeminiQuotaExhausted)
                => calls'[c].pc = "inflight" /\ calls'[c].invoked = 1
       /\ SumResume(Calls)' =
             SumResume(Calls)
             + (IF isCurrentlyGeminiQuotaExhausted
                   /\ ~isCurrentlyGeminiQuotaExhausted' THEN 1 ELSE 0)]_vars

\* C10 witness: a call that started after a resumption toast was admitted.
C10_Witness ==
    \E c \in Calls :
        /\ calls[c].resumesBefore = 1
        /\ SumResume(Calls) = 1
        /\ calls[c].invoked >= 1

\* C11: the cooldown closes only in a step that runs the callback of the
\* pending expiry timer, one cooldown duration after it opened; no start,
\* attempt, outcome or return of a gateway call and no chat step closes it.
C11_OnlyExpiryCloses ==
    [][/\ (isCurrentlyGeminiQuotaExhausted
             /\ ~isCurrentlyGeminiQuotaExhausted')
          => /\ \E t \in timers :
                   /\ t.id = quotaCooldownTimeoutId
                   /\ t.left = 0
                   /\ timers' = timers \ {t}
             /\ openFor = GEMINI_QUOTA_COOLDOWN_MS
       /\ (\/ \E c \in Calls :
                \/ Starts(c) \/ Invokes(c) \/ Returns(c)
                \/ Len(calls'[c].attempts) > Len(calls[c].attempts)
           \/ isLoading # isLoading')
          => (isCurrentlyGeminiQuotaExhausted
                 => isCurrentlyGeminiQuotaExhausted')]_vars

\* C11 witness: the cooldown is still Open, some time after it opened,
\* although a call that retried meanwhile has succeeded.
C11_Witness ==
    \E c \in Calls :
        /\ isCurrentlyGeminiQuotaExhausted
        /\ openFor > 0
        /\ calls[c].result = "data"
        /\ Len(calls[c].delays) >= 1

\* The quota predicate in the words of the specification, on the extracted
\* values; `absent` says which status codes count as "no status code".
StatedQuotaPredicate(r, absent) ==
    \/ r.statusCode = <<429>> /\ includes(r.detailedErrorMessage, "quota")
    \/ r.geminiErrorStatus = <<"RESOURCE_EXHAUSTED">>
    \/ /\ r.statusCode \in absent
       /\ includes(r.detailedErrorMessage, "quota")
       /\ (includes(r.detailedErrorMessage, "exceeded")
            \/ includes(r.detailedErrorMessage, "exhausted"))

\* C12 as stated: an error is classified QuotaExhausted iff (code 429 and the
\* message contains "quota") or (status string RESOURCE_EXHAUSTED) or (no
\* status code present and the message contains "quota" and one of
\* "exceeded"/"exhausted").
C12_QuotaIffStated ==
    classified.result # <<>>
        => LET r == classified.result[1]
           IN r.isQuotaExhaustedError <=> StatedQuotaPredicate(r, {<<>>})

\* C12 amended: the same equivalence with "no status code present" read as
\* the code reads it, absent or 0; and an error with code 429 whose message
\* contains "quota" is QuotaExhausted whatever its status string.
C12_QuotaIffStatedOrZeroCode ==
    classified.result # <<>>
        => LET r == classified.result[1]
           IN /\ r.isQuotaExhaustedError
                    <=> StatedQuotaPredicate(r, {<<>>, <<0>>})
              /\ (r.statusCode = <<429>>
                    /\ includes(r.detailedErrorMessage, "quota"))
                    => r.isQuotaExhaustedError

\* C12 witness: an error without status code or status string was classified
\* QuotaExhausted on its message alone.
C12_Witness ==
    /\ classified.result # <<>>
    /\ classified.result[1].statusCode = <<>>
    /\ classified.result[1].geminiErrorStatus = <<>>
    /\ classified.result[1].isQuotaExhaustedError

\* C13 as stated: an error of the nested or of the flat shape that carries
\* the status string RESOURCE_EXHAUSTED is classified QuotaExhausted.
C13_ResourceExhaustedEitherShape ==
    (/\ classified.result # <<>>
     /\ classified.error.shape \in {"nested", "flat"}
     /\ classified.error.status = <<"RESOURCE_EXHAUSTED">>)
        => classified.result[1].isQuotaExhaustedError

\* C13 amended: an error of the nested shape that carries the status string
\* RESOURCE_EXHAUSTED is classified QuotaExhausted, with or without a numeric
\* code and whatever its message; the status string of any other shape is not
\* extracted.
C13_ResourceExhaustedNested ==
    classified.result # <<>>
        => /\ (classified.error.shape = "nested"
                 /\ classified.error.status = <<"RESOURCE_EXHAUSTED">>)
                 => classified.result[1].isQuotaExhaustedError
           /\ classified.error.shape # "nested"
                 => classified.result[1].geminiErrorStatus = <<>>

\* C13 witness: a nested error with the status string, no code and a message
\* that does not mention quota was classified QuotaExhausted.
C13_Witness ==
    /\ classified.result # <<>>
    /\ classified.error.shape = "nested"
    /\ classified.error.status = <<"RESOURCE_EXHAUSTED">>
    /\ classified.error.code = <<>>
    /\ ~includes(classified.result[1].detailedErrorMessage, "quota")
    /\ classified.result[1].isQuotaExhaustedError

\* C14: an error with status code 429 outside the quota predicate is
\* RateLimited, RateLimited is reported only with status code 429, and no
\* error is both QuotaExhausted and RateLimited.
C14_RateLimitClassification ==
    classified.result # <<>>
        => LET r == classified.result[1]
           IN /\ (r.statusCode = <<429>>
                    /\ ~StatedQuotaPredicate(r, {<<>>}))
                    => r.isRateLimitErrorForRetry
              /\ r.isRateLimitErrorForRetry => r.statusCode = <<429>>
              /\ ~(r.isQuotaExhaustedError /\ r.isRateLimitErrorForRetry)

\* C14 witness: a 429 error whose message does not mention quota was
\* classified RateLimited.
C14_Witness ==
    /\ classified.result # <<>>
    /\ classified.result[1].statusCode = <<429>>
    /\ classified.result[1].isRateLimitErrorForRetry
    /\ ~classified.result[1].isQuotaExhaustedError

CountToasts(c, what) ==
    Cardinality({k \in 1..Len(calls[c].toasts) :
                    calls[c].toasts[k].what = what})

RECURSIVE SumToasts(_, _)
SumToasts(S, what) ==
    IF S = {} THEN 0
    ELSE LET c == CHOOSE x \in S : TRUE
         IN CountToasts(c, what) + SumToasts(S \ {c}, what)

\* Toasts that tell the user the call has failed: every error toast, and the
\* warning of a call rejected at entry.
TerminalToasts(c) ==
    Cardinality({k \in 1..Len(calls[c].toasts) :
                    \/ calls[c].toasts[k].level = "error"
                    \/ calls[c].toasts[k].what \in {"skip", "nokey"}})

\* C15: a call that has ended in a terminal failure (null or the degraded
\* payload) has emitted exactly one terminal notification.
C15_OneTerminalNotification ==
    \A c \in Calls :
        (Returned(c) /\ calls[c].result \in {"null", "partial"})
            => TerminalToasts(c) = 1

C17_OneToastPerEntry ==
    [][/\ SumToasts(Calls, "cooldown")' =
             SumToasts(Calls, "cooldown")
             + (IF ~isCurrentlyGeminiQuotaExhausted
                   /\ isCurrentlyGeminiQuotaExhausted' THEN 1 ELSE 0)
       /\ \A c \in Calls :
             (Catches(c, "quota") /\ ~isCurrentlyGeminiQuotaExhausted)
                => /\ Last(calls'[c].toasts).what = "cooldown"
                   /\ Last(calls'[c].toasts).level = "error"
                   /\ Last(calls'[c].toasts).delay = GEMINI_QUOTA_COOLDOWN_MS
       /\ \A c \in Calls :
             (Catches(c, "quota") /\ isCurrentlyGeminiQuotaExhausted)
                => calls'[c].toasts = calls[c].toasts]_vars

\* C17 witness: two calls caught a quota error in one Open period and one
\* cooldown-entry toast exists.
C17_Witness ==
    /\ isCurrentlyGeminiQuotaExhausted
    /\ \A c \in Calls :
          calls[c].attempts # <<>> /\ Last(calls[c].attempts) = "quota"
    /\ SumToasts(Calls, "cooldown") = 1

C19_IncompleteRetriedThenDegraded ==
    \A c \in Calls :
        (calls[c].attempts # <<>> /\ Last(calls[c].attempts) = "incomplete")
            => IF Len(calls[c].attempts) <= calls[c].retries
               THEN /\ InFlight(c)
                    /\ Len(calls[c].delays) = Len(calls[c].attempts)
                    /\ Last(calls[c].delays) =
                          calls[c].initialDelay
                          * Pow2(Len(calls[c].attempts) - 1)
               ELSE /\ Returned(c)
                    /\ calls[c].invoked = calls[c].retries + 1
                    /\ calls[c].result =
                          (IF calls[c].fn = "word" THEN "partial" ELSE "null")

\* C19 witness: an image lookup returned null and a word lookup the degraded
\* payload, each after a retry and a last attempt that were both incomplete.
C19_Witness ==
    \E c, d \in Calls :
        /\ calls[c].fn = "image" /\ calls[c].result = "null"
        /\ calls[c].attempts = <<"incomplete", "incomplete">>
        /\ calls[d].fn = "word" /\ calls[d].result = "partial"
        /\ calls[d].attempts = <<"incomplete", "incomplete">>

\* C20: the cooldown opens only in a step in which some call catches an error
\* classified as quota exhaustion; a success, an incomplete payload or a
\* non-quota error leaves the quota state as it was.
C20_OnlyQuotaErrorOpens ==
    [][/\ (~isCurrentlyGeminiQuotaExhausted
             /\ isCurrentlyGeminiQuotaExhausted')
          => \E c \in Calls : Catches(c, "quota")
       /\ \A c \in Calls :
             (Catches(c, "ok") \/ Catches(c, "incomplete")
                \/ Catches(c, "transient"))
                => UNCHANGED <<isCurrentlyGeminiQuotaExhausted,
                               quotaCooldownTimeoutId, timers,
                               nextTimeoutId>>]_vars

\* C20 witness: every call has succeeded, one of them after a retry, and the
\* quota state is as it was initially.
C20_Witness ==
    /\ \A c \in Calls : calls[c].result = "data"
    /\ \E c \in Calls : Len(calls[c].attempts) > 1
    /\ ~isCurrentlyGeminiQuotaExhausted
    /\ quotaCooldownTimeoutId = NullTimeoutId
    /\ timers = {}

\* C21: a step of the chat handler (send, stream end, stream error) leaves
\* the quota flag, the cooldown handle and the cooldown timers as they were,
\* whatever error it catches, and a failed send is not repeated: the handler
\* ends with one error toast and isLoading false.
C21_ChatLeavesQuotaState ==
    [][(isLoading' # isLoading \/ chatToasts' # chatToasts)
          => /\ UNCHANGED <<isCurrentlyGeminiQuotaExhausted,
                            quotaCooldownTimeoutId, timers, nextTimeoutId>>
             /\ UNCHANGED calls
             /\ chatToasts' # chatToasts
                   => /\ Len(chatToasts') = Len(chatToasts) + 1
                      /\ ~isLoading']_vars

\* C21 witness: the chat handler has caught an error that parseGeminiError
\* classifies as quota exhaustion, and the cooldown is Closed with no timer.
C21_Witness ==
    /\ \E k \in 1..Len(chatToasts) : chatToasts[k].what = "chatquota"
    /\ ~isLoading
    /\ ~isCurrentlyGeminiQuotaExhausted
    /\ quotaCooldownTimeoutId = NullTimeoutId
    /\ timers = {}

\* C22: when every pending network call completes and every timer fires, a
\* call in flight eventually returns; it never invokes its operation more
\* than retries + 1 times, and the code after the retry loop is never reached.
C22_AdmittedCallTerminates ==
    /\ \A c \in Calls : InFlight(c) ~> Returned(c)
    /\ [][\A c \in Calls :
             /\ calls'[c].invoked <= calls'[c].retries + 1
             /\ ~\E k \in 1..Len(calls'[c].toasts) :
                   calls'[c].toasts[k].what = "fallback"]_vars

\* C22 witness: a call with retries = 2 has returned after three invocations
\* that ended incomplete, in a transient error and in a quota error.
C22_Witness ==
    \E c \in Calls :
        /\ Returned(c)
        /\ calls[c].retries = 2
        /\ calls[c].invoked = 3
        /\ calls[c].attempts = <<"incomplete", "transient", "quota">>

\* C23: the cooldown handle is non-null exactly when the quota flag is set,
\* at most one cooldown timer is pending, and that timer is the one the
\* handle names.
C23_HandleIffExhausted ==
    /\ (quotaCooldownTimeoutId # NullTimeoutId)
          <=> isCurrentlyGeminiQuotaExhausted
    /\ Cardinality(timers) <= 1
    /\ isCurrentlyGeminiQuotaExhausted
          => \E t \in timers : t.id = quotaCooldownTimeoutId
    /\ ~isCurrentlyGeminiQuotaExhausted => timers = {}

\* C23 witness: the cooldown is Open for the second time, with one timer.
C23_Witness ==
    /\ isCurrentlyGeminiQuotaExhausted
    /\ quotaCooldownTimeoutId > FirstTimeoutId
    /\ Cardinality(timers) = 1

C27_DeleteOnlyCustomWords ==
    [][event'.name = "handleDeleteCustomWord"
          => LET wordId == event'.id[1]
                 isCustomWord == \E k \in 1..Len(allWords) :
                                    /\ allWords[k].id = wordId
                                    /\ allWords[k].isCustom
             IN IF isCustomWord
                THEN /\ allWords' = SelectSeq(allWords, LAMBDA w : w.id # wordId)
                     /\ wordStats' = [id \in DOMAIN wordStats \ {wordId} |->
                                         wordStats[id]]
                ELSE /\ allWords' = allWords
                     /\ wordStats' = wordStats]_vars

\* Terms equal ignoring case and surrounding whitespace.
SameTerm(t, u) == textToLowerCase(trim(t)) = textToLowerCase(trim(u))

\* C29: no two words of the list have terms that are equal ignoring case and
\* surrounding whitespace.
C29_NoDuplicateTerms ==
    \A j, k \in 1..Len(allWords) :
        j # k => ~SameTerm(allWords[j].term, allWords[k].term)

\* C30: when the awaited word lookup resolves with null or with the degraded
\* payload, the fields meaning, partOfSpeech, exampleSentence, pronunciation
\* and exampleSentenceMeaning of both forms keep their values.
C30_FailedFillKeepsInput ==
    [][(event'.name = "AIFillResolved" /\ event'.id # <<"data">>)
          => \A f \in FormFields \ {"term"} :
                /\ editableWord'[f] = editableWord[f]
                /\ newWord'[f] = newWord[f]]_vars

\* C28: handleWordLearned on a day other than lastLearnedDate leaves xp 5
\* higher and lastLearnedDate = today, with the saved settings equal to the
\* settings in memory; on the same day it awards nothing.
C28_NewDayAwardsXp ==
    [][event'.name = "handleWordLearned"
          => IF userSettings.lastLearnedDate # <<today>>
             THEN /\ userSettings'.xp = userSettings.xp + 5
                  /\ userSettings'.lastLearnedDate = <<today>>
                  /\ localStorage'.userSettings = userSettings'
             ELSE userSettings'.xp = userSettings.xp]_vars

\* C25: when a quiz has finished, the quizIncorrectCount of every word is
\* what it was when the quiz started, plus 1 if the word was answered wrong
\* in this quiz.
C25_WrongAnswerCountedOnce ==
    quiz.quizState = "finished"
        => \A id \in DOMAIN wordStats :
              wordStats[id].quizIncorrectCount =
                 QuizIncorrectCount(statsAtStart, id)
                 + (IF \E k \in 1..Len(quiz.incorrectlyAnsweredWords) :
                          quiz.incorrectlyAnsweredWords[k] = id
                    THEN 1 ELSE 0)

\* The scoring relation of C26 on a quiz state.
Scored(q) ==
    /\ q.quizState = "playing"
          => /\ q.score + Len(q.incorrectlyAnsweredWords) =
                   q.currentQuestionIndex + (IF q.showResult THEN 1 ELSE 0)
             /\ q.currentQuestionIndex < Len(q.quizWords)
    /\ q.quizState = "finished"
          => q.score + Len(q.incorrectlyAnsweredWords) = Len(q.quizWords)

\* C26: after every step, while playing, score + incorrect answers equals
\* the question index, plus 1 when the result is shown, and the index is
\* below the number of quiz words; when finished it equals the number of
\* quiz words; and a step taken while the result is shown changes neither
\* the score nor the incorrect answers.
C26_QuizScoring ==
    [][/\ Scored(quiz')
       /\ (quiz.quizState = "playing" /\ quiz.showResult)
             => /\ quiz'.score = quiz.score
                /\ quiz'.incorrectlyAnsweredWords =
                      quiz.incorrectlyAnsweredWords]_vars

\* C26 witness: a quiz of four words has finished with two right and two
\* wrong answers.
C26_Witness ==
    /\ quiz.quizState = "finished"
    /\ Len(quiz.quizWords) = 4
    /\ quiz.score = 2
    /\ Len(quiz.incorrectlyAnsweredWords) = 2

====
